---- MODULE Spec2Model ----
(***************************************************************************)
(* Model of reading_logs_parser (src/main.go): the batch loop of main with *)
(* its checkpoint file .progress.json, the HEIC temp files, and the CSV    *)
(* export.  One run of the program is Start, then one iteration of the     *)
(* loop per scanned image (split at the calls that can fail and at the     *)
(* checkpoint write), then Finish.  Several runs follow each other over    *)
(* the same directory; the checkpoint file is what one run hands to the    *)
(* next.                                                                   *)
(***************************************************************************)
EXTENDS Integers, Sequences, FiniteSets, TLC

\* ------------------------------------------------------------------ bounds

\* Directory entries present at most.
MaxFiles == 2
\* Invocations of the program that follow each other.
MaxRuns == 2

\* ------------------------------------------------------------- the directory

\* What the directory may hold, in the order os.ReadDir lists it (by name).
Universe ==
    << [name |-> "a.HEIC",    ext |-> ".HEIC", isDir |-> FALSE],
       [name |-> "b.jpg",     ext |-> ".jpg",  isDir |-> FALSE],
       [name |-> "c.png",     ext |-> ".png",  isDir |-> FALSE],
       [name |-> "notes.txt", ext |-> ".txt",  isDir |-> FALSE],
       [name |-> "old.jpg",   ext |-> ".jpg",  isDir |-> TRUE] >>

Names == { Universe[k].name : k \in 1..Len(Universe) }

\* A path main handles: an image of the directory, or the temp file
\* "reading-log-*.jpg" that converting it in some run created.
ImagePath(n) == [kind |-> "image", name |-> n]
TempPath(n) == [kind |-> "temp", name |-> n]
NoPath == [kind |-> "none", name |-> ""]

\* filepath.Ext of a path.
ExtOf(path) ==
    IF path.kind = "temp" THEN ".jpg"
    ELSE (CHOOSE e \in { Universe[k] : k \in 1..Len(Universe) } : e.name = path.name).ext

\* strings.ToLower on the extensions of the universe.
ToLower(s) == IF s = ".HEIC" THEN ".heic" ELSE s

imageExts == {".jpg", ".jpeg", ".png", ".gif", ".webp", ".heic"}

mediaTypes ==
    [e \in {".jpg", ".jpeg", ".png", ".gif", ".webp"} |->
        CASE e = ".jpg"  -> "image/jpeg"
          [] e = ".jpeg" -> "image/jpeg"
          [] e = ".png"  -> "image/png"
          [] e = ".gif"  -> "image/gif"
          [] e = ".webp" -> "image/webp"]

\* findImages: the regular files with an image extension, in listing order.
IsImage(e, d) == e.name \in d /\ ~e.isDir /\ ToLower(e.ext) \in imageExts

RECURSIVE Scan(_, _)
Scan(k, d) ==
    IF k > Len(Universe) THEN << >>
    ELSE (IF IsImage(Universe[k], d) THEN << Universe[k].name >> ELSE << >>)
         \o Scan(k + 1, d)

findImages(d) == Scan(1, d)

isHEIC(n) == ToLower(ExtOf(ImagePath(n))) = ".heic"

\* ------------------------------------------------------------------ Go maps

\* A Go map is nil or holds keys: a nil map reads as empty, and writing
\* to it panics.
EmptyMap == [nil |-> FALSE, kv |-> << >>]
NilMap   == [nil |-> TRUE,  kv |-> << >>]

Has(m, k) == k \in DOMAIN m.kv
Keys(m) == DOMAIN m.kv
Put(m, k, v) == [nil |-> FALSE, kv |-> (k :> v) @@ m.kv]
Delete(m, k) == [m EXCEPT !.kv = [x \in DOMAIN m.kv \ {k} |-> m.kv[x]]]

\* --------------------------------------------------------- reading records

Entry(d, t, m) == [Day |-> d, Date |-> t, Minutes |-> m]

\* What the extraction call may answer: the form of the README with a blank
\* day, and a form read with the same date twice.
LogA ==
    [FullName |-> "Flora", Grade |-> "Kinder", HomeroomTeacher |-> "Alm",
     ReadingEntries |-> << Entry("Friday", "1/30", 10), Entry("Tuesday", "2/3", 0) >>]
LogB ==
    [FullName |-> "Milo", Grade |-> "1st", HomeroomTeacher |-> "Berg",
     ReadingEntries |-> << Entry("Friday", "1/30", 5), Entry("Friday", "1/30", 7),
                           Entry("Monday", "2/2", 0), Entry("Monday", "2/2", 20) >>]
Logs == {LogA, LogB}

\* ------------------------------------------------------------ .progress.json

\* A field of the JSON object: absent, null, or an object.
JMissing == [tag |-> "missing", kv |-> << >>]
JNull    == [tag |-> "null",    kv |-> << >>]
JObject(f) == [tag |-> "object", kv |-> f]

FileAbsent  == [kind |-> "absent",  completed |-> JMissing, errors |-> JMissing]
FileCorrupt == [kind |-> "corrupt", completed |-> JMissing, errors |-> JMissing]
FileJSON(c, e) == [kind |-> "json", completed |-> c, errors |-> e]

\* json.Unmarshal of one field into a map made beforehand: an absent key
\* leaves it, null sets it to nil, an object fills it.
FromJ(j) ==
    CASE j.tag = "missing" -> EmptyMap
      [] j.tag = "null"    -> NilMap
      [] j.tag = "object"  -> [nil |-> FALSE, kv |-> j.kv]

\* json.Marshal of a map.
ToJ(m) == IF m.nil THEN JNull ELSE JObject(m.kv)

FreshProgress == [Completed |-> EmptyMap, Errors |-> EmptyMap]

loadProgress(f) ==
    IF f.kind = "absent" THEN FreshProgress
    ELSE IF f.kind = "corrupt" THEN FreshProgress
    ELSE [Completed |-> FromJ(f.completed), Errors |-> FromJ(f.errors)]

\* What saveProgress writes when os.WriteFile succeeds.
Marshal(p) == FileJSON(ToJ(p.Completed), ToJ(p.Errors))

\* os.WriteFile: done, refused before the file is opened, or failed after
\* the file was truncated.
SaveResults == {"ok", "fail_untouched", "fail_truncated"}

\* A write that reports success and leaves the file as it was.
WriteFileNotWritten(f, p, r) == IF r = "fail_truncated" THEN FileCorrupt ELSE f

WriteFile(f, p, r) ==
    CASE r = "ok"             -> Marshal(p)
      [] r = "fail_untouched" -> f
      [] r = "fail_truncated" -> FileCorrupt

\* ------------------------------------------------------------- the CSV file

Digit == << "0", "1", "2", "3", "4", "5", "6", "7", "8", "9" >>

\* fmt.Sprintf("%d", n): the decimal digits, as a sequence of characters.
RECURSIVE Itoa(_)
Itoa(n) ==
    IF n < 0 THEN << "-" >> \o Itoa(0 - n)
    ELSE IF n < 10 THEN << Digit[n + 1] >>
    ELSE Itoa(n \div 10) \o << Digit[(n % 10) + 1] >>

\* formatMinutes: the first entry of that date decides.
RECURSIVE formatMinutesFrom(_, _, _)
formatMinutesFrom(entries, date, k) ==
    IF k > Len(entries) THEN << >>
    ELSE IF entries[k].Date = date
         THEN (IF entries[k].Minutes > 0 THEN Itoa(entries[k].Minutes) ELSE << >>)
         ELSE formatMinutesFrom(entries, date, k + 1)

\* The lookup going on to the last entry of the date.
RECURSIVE formatMinutesLastFrom(_, _, _)
formatMinutesLastFrom(entries, date, k) ==
    IF k = 0 THEN << >>
    ELSE IF entries[k].Date = date
         THEN (IF entries[k].Minutes > 0 THEN Itoa(entries[k].Minutes) ELSE << >>)
         ELSE formatMinutesLastFrom(entries, date, k - 1)

formatMinutesLast(entries, date) == formatMinutesLastFrom(entries, date, Len(entries))

formatMinutes(entries, date) == formatMinutesFrom(entries, date, 1)

RECURSIVE TotalFrom(_, _)
TotalFrom(entries, k) ==
    IF k > Len(entries) THEN 0
    ELSE entries[k].Minutes + TotalFrom(entries, k + 1)

DateColumns == << "1/30", "1/31", "2/1", "2/2", "2/3", "2/4", "2/5" >>

\* One data row of writeCSV.
Row(log) ==
    << log.FullName, log.Grade, log.HomeroomTeacher >>
    \o [c \in 1..Len(DateColumns) |-> formatMinutes(log.ReadingEntries, DateColumns[c])]
    \o << Itoa(TotalFrom(log.ReadingEntries, 1)) >>

\* The data rows of writeCSV, one per log, in the order given.
writeCSV(logs) == [k \in 1..Len(logs) |-> Row(logs[k])]

\* os.Create and the buffered csv.Writer: the file cannot be created; a
\* write reaches the file and fails (writer.Write returns it); the deferred
\* Flush fails (its error is dropped); or all is written.
CsvResults == {"ok", "create_fail", "write_fail", "flush_fail"}

\* What writeCSV returns to main: TRUE for an error.
CsvReturnsError(r) == r \in {"create_fail", "write_fail"}

\* The orders in which ranging over a map with keys S may visit them.
Orders(S) ==
    { s \in [1..Cardinality(S) -> S] : \A a, b \in 1..Cardinality(S) : a # b => s[a] # s[b] }

\* -------------------------------------------------------------------- state

VARIABLES
    dir,        \* names present in the working directory
    run,        \* number of the invocation
    pc,         \* where main is: start, loop, encode, extract, save, or ended
    images,     \* main's images
    i,          \* the loop's index into images (from 1)
    progress,   \* main's *Progress
    loaded,     \* what loadProgress returned at startup
    disk,       \* the file .progress.json
    tmpDir,     \* temp files this run created that exist
    deferred,   \* temp files whose os.Remove main has deferred
    processPath,\* the path handed to encodeImage: the image, or its temp file
    marked,     \* the mark awaiting its saveProgress: none, success, failure
    lastSave,   \* how the latest saveProgress of the run ended
    lastWarned, \* whether that saveProgress was followed by a warning
    succeeded, failed, skipped,   \* main's counters
    attempts,   \* per image, how often the run began processing it
    outcome,    \* per image, how the run left it
    env,        \* what the run met: directory readable, how the CSV write went
    csv,        \* what this run made of the file reading_logs.csv
    exitCode,   \* -1 while running
    prev        \* how the previous invocation ended

vars ==
    << dir, run, pc, images, i, progress, loaded, disk, tmpDir, deferred,
       processPath, marked, lastSave, lastWarned, succeeded, failed, skipped,
       attempts, outcome, env, csv, exitCode, prev >>

Running == pc \in {"loop", "encode", "extract", "save"}
Ended == pc \in {"done", "exit", "panic", "killed"}
\* The run went through its whole loop and ended by itself.
LoopFinished == pc \in {"done", "exit"} /\ env.dirOk /\ images # << >>

NoCsv == [state |-> "untouched", rows |-> << >>]
NoEnv == [dirOk |-> TRUE, csvIo |-> "none"]
NoPrev == [allSucceeded |-> FALSE, persisted |-> FALSE, extractFailed |-> {}]

Dirs == { d \in SUBSET Names : Cardinality(d) <= MaxFiles }

RunInit ==
    /\ pc = "start"
    /\ images = << >>
    /\ i = 0
    /\ progress = FreshProgress
    /\ loaded = FreshProgress
    /\ tmpDir = {}
    /\ deferred = {}
    /\ csv = NoCsv
    /\ processPath = NoPath
    /\ marked = "none"
    /\ lastSave = "none"
    /\ lastWarned = FALSE
    /\ succeeded = 0 /\ failed = 0 /\ skipped = 0
    /\ attempts = << >>
    /\ outcome = << >>
    /\ env = NoEnv
    /\ exitCode = -1

\* A first invocation in a directory that holds no checkpoint yet.
Init ==
    /\ dir \in Dirs
    /\ run = 1
    /\ disk = FileAbsent
    /\ prev = NoPrev
    /\ RunInit

\* ------------------------------------------------------------------- start

\* The lookup made in the wrong map.
IsDoneInErrors(p, n) == Has(p.Errors, n)

\* A recorded error taken for a reason to skip the file.
IsDoneOrErrored(p, n) == Has(p.Completed, n) \/ Has(p.Errors, n)

\* main, line 185 and line 202: the file is in progress.Completed.
IsDone(p, n) == Has(p.Completed, n)

CountDone(p, imgs) == Cardinality({ k \in 1..Len(imgs) : IsDone(p, imgs[k]) })

\* main up to the loop: findImages, the two early exits, loadProgress, the
\* count of files already completed.
Start ==
    /\ pc = "start"
    /\ \E readable \in BOOLEAN :
        IF ~readable
        THEN /\ env' = [env EXCEPT !.dirOk = FALSE]
             /\ pc' = "exit" /\ exitCode' = 1
             /\ UNCHANGED << images, i, progress, loaded, skipped, attempts, outcome >>
        ELSE /\ images' = findImages(dir)
             /\ env' = env
             /\ IF Len(findImages(dir)) = 0
                THEN /\ pc' = "exit" /\ exitCode' = 1
                     /\ UNCHANGED << i, progress, loaded, skipped, attempts, outcome >>
                ELSE /\ progress' = loadProgress(disk)
                     /\ loaded' = loadProgress(disk)
                     /\ skipped' = CountDone(loadProgress(disk), findImages(dir))
                     /\ attempts' = [n \in { findImages(dir)[k] : k \in 1..Len(findImages(dir)) } |-> 0]
                     /\ outcome' = [n \in { findImages(dir)[k] : k \in 1..Len(findImages(dir)) } |-> "scanned"]
                     /\ i' = 1
                     /\ pc' = "loop" /\ exitCode' = exitCode
    /\ UNCHANGED << dir, run, disk, tmpDir, deferred, processPath, marked, lastSave,
                    lastWarned, succeeded, failed, csv, prev >>

\* -------------------------------------------------------------------- marks

\* The success mark without line 245.
MarkSuccessKeepError(p, n, log) ==
    [p EXCEPT !.Completed = Put(p.Completed, n, log)]

\* main, lines 244-245.
MarkSuccess(p, n, log) ==
    [Completed |-> Put(p.Completed, n, log), Errors |-> Delete(p.Errors, n)]

\* main, lines 214, 227, 237.
MarkFailure(p, n, msg) ==
    [p EXCEPT !.Errors = Put(p.Errors, n, msg)]

cur == images[i]

\* A write to a nil map panics: the deferred removals run and the process
\* ends with code 2.
Panic ==
    /\ pc' = "panic" /\ exitCode' = 2
    /\ tmpDir' = tmpDir \ deferred
    /\ UNCHANGED << progress, marked, outcome >>

\* The error branch leaving main instead of going on with the next file.
RecordFailureAbort(msg, what) ==
    /\ progress' = MarkFailure(progress, cur, msg)
    /\ marked' = "none"
    /\ outcome' = [outcome EXCEPT ![cur] = what]
    /\ pc' = "exit" /\ exitCode' = 1
    /\ UNCHANGED tmpDir

\* The error branch of an iteration up to its saveProgress call.
RecordFailure(msg, what) ==
    IF progress.Errors.nil
    THEN Panic
    ELSE /\ progress' = MarkFailure(progress, cur, msg)
         /\ marked' = "failure"
         /\ outcome' = [outcome EXCEPT ![cur] = what]
         /\ pc' = "save"
         /\ UNCHANGED << tmpDir, exitCode >>

\* The success branch of an iteration up to its saveProgress call.
RecordSuccess(log) ==
    IF progress.Completed.nil
    THEN Panic
    ELSE /\ progress' = MarkSuccess(progress, cur, log)
         /\ marked' = "success"
         /\ outcome' = [outcome EXCEPT ![cur] = "completed"]
         /\ pc' = "save"
         /\ UNCHANGED << tmpDir, exitCode >>

\* ----------------------------------------------------------------- the loop

AtFile == pc = "loop" /\ i <= Len(images)

\* main, lines 202-204.
Skip ==
    /\ AtFile
    /\ IsDone(progress, cur)
    /\ i' = i + 1
    /\ outcome' = [outcome EXCEPT ![cur] = "skipped"]
    /\ UNCHANGED << dir, run, pc, images, progress, loaded, disk, tmpDir, deferred,
                    processPath, marked, lastSave, lastWarned, succeeded, failed,
                    skipped, attempts, env, csv, exitCode, prev >>

ConvertResults == {"ok", "createtemp_fail", "sips_fail"}

\* main, lines 209-221, for a HEIC file: convertHEICtoJPEG, and on success
\* the deferred removal of its temp file.
Convert ==
    /\ AtFile
    /\ ~IsDone(progress, cur)
    /\ isHEIC(cur)
    /\ attempts' = [attempts EXCEPT ![cur] = @ + 1]
    /\ \E r \in ConvertResults :
        CASE r = "ok" ->
                /\ tmpDir' = tmpDir \cup {TempPath(cur)}
                /\ deferred' = deferred \cup {TempPath(cur)}
                /\ processPath' = TempPath(cur)
                /\ pc' = "encode"
                /\ UNCHANGED << progress, marked, outcome, exitCode >>
          [] r = "createtemp_fail" ->
                /\ RecordFailure("failed to create temp file", "normalize_failed")
                /\ UNCHANGED << deferred, processPath >>
          [] r = "sips_fail" ->
                /\ RecordFailure("sips conversion failed", "normalize_failed")
                /\ UNCHANGED << deferred, processPath >>
    /\ UNCHANGED << dir, run, images, i, loaded, disk, lastSave, lastWarned,
                    succeeded, failed, skipped, env, csv, prev >>

\* encodeImage: the file is read, and its extension names the media type.
encodeImage(path, readable) ==
    IF ~readable THEN [err |-> "open failed", mediaType |-> ""]
    ELSE IF ToLower(ExtOf(path)) \notin DOMAIN mediaTypes
         THEN [err |-> "unsupported image type", mediaType |-> ""]
         ELSE [err |-> "", mediaType |-> mediaTypes[ToLower(ExtOf(path))]]

\* main, lines 224-231: encodeImage of the image itself (line 209) or of the
\* temp file that Convert produced.
Encode ==
    /\ \/ AtFile /\ ~IsDone(progress, cur) /\ ~isHEIC(cur)
       \/ pc = "encode"
    /\ attempts' = IF pc = "loop" THEN [attempts EXCEPT ![cur] = @ + 1] ELSE attempts
    /\ \E readable \in BOOLEAN :
        LET path == IF pc = "loop" THEN ImagePath(cur) ELSE processPath
            res == encodeImage(path, readable)
        IN  IF res.err # ""
            THEN /\ RecordFailure(res.err, "encode_failed")
                 /\ processPath' = path
            ELSE /\ pc' = "extract"
                 /\ processPath' = path
                 /\ UNCHANGED << progress, marked, outcome, tmpDir, exitCode >>
    /\ UNCHANGED << dir, run, images, i, loaded, disk, deferred, lastSave, lastWarned,
                    succeeded, failed, skipped, env, csv, prev >>

ExtractErrors == {"API call failed"}

\* main, lines 234-245: parseReadingLog, then the mark.
Extract ==
    /\ pc = "extract"
    /\ \/ \E msg \in ExtractErrors : RecordFailure(msg, "extract_failed")
       \/ \E log \in Logs : RecordSuccess(log)
    /\ UNCHANGED << dir, run, images, i, loaded, disk, deferred, processPath, lastSave,
                    lastWarned, succeeded, failed, skipped, attempts, env, csv, prev >>

\* The saveProgress call after a mark and the rest of the iteration: only
\* the success branch (lines 246-248) looks at what saveProgress returned.
Save ==
    /\ pc = "save"
    /\ \E r \in SaveResults :
        /\ disk' = WriteFile(disk, progress, r)
        /\ lastSave' = IF r = "ok" THEN "ok" ELSE "failed"
        /\ lastWarned' = (r # "ok" /\ marked = "success")
    /\ succeeded' = IF marked = "success" THEN succeeded + 1 ELSE succeeded
    /\ failed' = IF marked = "failure" THEN failed + 1 ELSE failed
    /\ marked' = "none"
    /\ processPath' = NoPath
    /\ i' = i + 1
    /\ pc' = "loop"
    /\ UNCHANGED << dir, run, images, progress, loaded, tmpDir, deferred, skipped,
                    attempts, outcome, env, csv, exitCode, prev >>

\* ------------------------------------------------------------ after the loop

\* main, lines 254-272: nothing completed is fatal; else writeCSV of every
\* completed record, in the order ranging over the map yields.  os.Exit
\* leaves the deferred removals undone; returning from main runs them.
Finish ==
    /\ pc = "loop" /\ i > Len(images)
    /\ IF Keys(progress.Completed) = {}
       THEN /\ pc' = "exit" /\ exitCode' = 1
            /\ UNCHANGED << env, csv, tmpDir >>
       ELSE \E order \in Orders(Keys(progress.Completed)), r \in CsvResults :
            LET allLogs == [k \in DOMAIN order |-> progress.Completed.kv[order[k]]]
            IN  /\ env' = [env EXCEPT !.csvIo = r]
                /\ csv' = CASE r = "ok" -> [state |-> "written", rows |-> writeCSV(allLogs)]
                            [] r = "create_fail" -> csv
                            [] OTHER -> [state |-> "partial", rows |-> << >>]
                /\ IF CsvReturnsError(r)
                   THEN /\ pc' = "exit" /\ exitCode' = 1
                        /\ tmpDir' = tmpDir
                   ELSE /\ pc' = "done" /\ exitCode' = 0
                        /\ tmpDir' = tmpDir \ deferred
    /\ UNCHANGED << dir, run, images, i, progress, loaded, disk, deferred, processPath,
                    marked, lastSave, lastWarned, succeeded, failed, skipped, attempts,
                    outcome, prev >>

\* The process is stopped from outside between two steps of the loop.
Crash ==
    /\ Running
    /\ pc' = "killed"
    /\ UNCHANGED << dir, run, images, i, progress, loaded, disk, tmpDir, deferred,
                    processPath, marked, lastSave, lastWarned, succeeded, failed,
                    skipped, attempts, outcome, env, csv, exitCode, prev >>

\* The process is stopped inside os.WriteFile, after the file was truncated.
CrashDuringSave ==
    /\ pc = "save"
    /\ disk' = FileCorrupt
    /\ pc' = "killed"
    /\ UNCHANGED << dir, run, images, i, progress, loaded, tmpDir, deferred,
                    processPath, marked, lastSave, lastWarned, succeeded, failed,
                    skipped, attempts, outcome, env, csv, exitCode, prev >>

\* The program is invoked again in the same directory.
NextRun ==
    /\ Ended
    /\ run < MaxRuns
    /\ run' = run + 1
    /\ prev' = [allSucceeded |-> LoopFinished /\ \A k \in 1..Len(images) : IsDone(progress, images[k]),
                persisted |-> loadProgress(disk) = progress,
                extractFailed |-> { n \in DOMAIN outcome : outcome[n] = "extract_failed" }]
    /\ pc' = "start"
    /\ images' = << >>
    /\ i' = 0
    /\ progress' = FreshProgress
    /\ loaded' = FreshProgress
    /\ tmpDir' = {}
    /\ deferred' = {}
    /\ csv' = NoCsv
    /\ processPath' = NoPath
    /\ marked' = "none"
    /\ lastSave' = "none"
    /\ lastWarned' = FALSE
    /\ succeeded' = 0 /\ failed' = 0 /\ skipped' = 0
    /\ attempts' = << >>
    /\ outcome' = << >>
    /\ env' = NoEnv
    /\ exitCode' = -1
    /\ UNCHANGED << dir, disk >>

Next ==
    \/ Start
    \/ Skip
    \/ Convert
    \/ Encode
    \/ Extract
    \/ Save
    \/ Finish
    \/ Crash
    \/ CrashDuringSave
    \/ NextRun

Spec == Init /\ [][Next]_vars

\* ------------------------------------------------- any checkpoint file at all

\* Contents of .progress.json that json.Unmarshal accepts, beside none and
\* an unparsable one: each key absent, null, or an object.
JCompletedFields == {JMissing, JNull, JObject(<< >>), JObject("b.jpg" :> LogA)}
JErrorsFields == {JMissing, JNull, JObject(<< >>), JObject("c.png" :> "API call failed")}

LoadFiles ==
    {FileAbsent, FileCorrupt}
    \cup { FileJSON(c, e) : c \in JCompletedFields, e \in JErrorsFields }

\* A first invocation in a directory where .progress.json may hold anything.
InitLoad ==
    /\ dir \in Dirs
    /\ run = 1
    /\ disk \in LoadFiles
    /\ prev = NoPrev
    /\ RunInit

SpecLoad == InitLoad /\ [][Next]_vars

\* ------------------------------------------------------------------ claims

ImageSet == { images[k] : k \in 1..Len(images) }

\* What a later invocation would load.
Reloaded == loadProgress(disk)

\* A scanned image that is a key of `completed` in the checkpoint loaded at
\* startup gets no normalize, encode or extract step and keeps its record.
C1_SkipPart ==
    \A n \in ImageSet :
        Has(loaded.Completed, n) =>
            /\ attempts[n] = 0
            /\ outcome[n] \in {"scanned", "skipped"}
            /\ Has(progress.Completed, n)
            /\ progress.Completed.kv[n] = loaded.Completed.kv[n]

\* The run processed no file and left `completed` as it was loaded.
C1_ProcessesNothing ==
    /\ succeeded = 0 /\ failed = 0
    /\ skipped = Len(images)
    /\ \A n \in ImageSet : attempts[n] = 0 /\ outcome[n] = "skipped"
    /\ progress.Completed = loaded.Completed

C2_ErrorsRetried ==
    /\ \A n \in DOMAIN outcome :
          outcome[n] = "extract_failed" =>
              Has(progress.Errors, n) /\ ~Has(progress.Completed, n)
    /\ (pc = "loop" /\ i > 1 /\ lastSave = "ok") =>
          (outcome[images[i - 1]] = "extract_failed" =>
              Has(Reloaded.Errors, images[i - 1]) /\ ~Has(Reloaded.Completed, images[i - 1]))
    /\ LoopFinished =>
          /\ \A n \in ImageSet :
                (Has(loaded.Errors, n) /\ ~Has(loaded.Completed, n)) => attempts[n] = 1
          /\ \A n \in prev.extractFailed : n \in ImageSet /\ attempts[n] = 1

C2_Witness ==
    /\ run > 1 /\ LoopFinished
    /\ \E n \in prev.extractFailed :
          Has(loaded.Errors, n) /\ attempts[n] = 1 /\ outcome[n] = "completed"

C4_Original ==
    /\ \A n \in DOMAIN attempts : attempts[n] <= 1
    /\ LoopFinished =>
          \A n \in ImageSet :
              \/ outcome[n] = "skipped" /\ attempts[n] = 0
              \/ /\ attempts[n] = 1
                 /\ outcome[n] \in {"normalize_failed", "extract_failed", "completed"}

\* C4, amended: the same with the fourth outcome the loop has, a failure to
\* read or encode the image (encodeImage).
C4_OncePerRun ==
    /\ \A n \in DOMAIN attempts : attempts[n] <= 1
    /\ LoopFinished =>
          /\ succeeded + failed + skipped = Len(images)
          /\ \A n \in ImageSet :
              \/ outcome[n] = "skipped" /\ attempts[n] = 0
              \/ /\ attempts[n] = 1
                 /\ outcome[n] \in {"normalize_failed", "encode_failed", "extract_failed",
                                    "completed"}

C4_Witness ==
    /\ LoopFinished
    /\ Len(images) = 2
    /\ outcome[images[1]] \in {"normalize_failed", "extract_failed"}
    /\ outcome[images[2]] = "completed"

\* C5: the program ends with code 1 exactly when the directory cannot be
\* read, no image is found, the export file cannot be written, or
\* `completed` is empty after the loop, and with code 0 otherwise; and with
\* `completed` empty the export is not run.
C5_ExitCodes ==
    pc \in {"done", "exit"} =>
        /\ exitCode \in {0, 1}
        /\ exitCode = 1 <=>
              \/ ~env.dirOk
              \/ images = << >>
              \/ Keys(progress.Completed) = {}
              \/ env.csvIo \in {"create_fail", "write_fail", "flush_fail"}
        /\ Keys(progress.Completed) = {} => env.csvIo = "none" /\ csv.state = "untouched"

\* Reading a cell back: the number a sequence of decimal digits writes.
DigitValue(c) == CHOOSE d \in 0..9 : Digit[d + 1] = c

RECURSIVE Atoi(_)
Atoi(s) ==
    IF Len(s) = 0 THEN 0
    ELSE Atoi(SubSeq(s, 1, Len(s) - 1)) * 10 + DigitValue(s[Len(s)])

IsDecimalOf(s, n) ==
    /\ Len(s) > 0
    /\ \A k \in 1..Len(s) : \E d \in 0..9 : Digit[d + 1] = s[k]
    /\ Len(s) > 1 => s[1] # "0"
    /\ Atoi(s) = n

RECURSIVE SumDown(_, _)
SumDown(entries, k) == IF k = 0 THEN 0 ELSE SumDown(entries, k - 1) + entries[k].Minutes

CellMatches(cell, entries, date) ==
    LET M == { k \in 1..Len(entries) : entries[k].Date = date }
    IN  IF M = {} THEN cell = << >>
        ELSE LET first == CHOOSE k \in M : \A j \in M : k <= j
             IN  /\ entries[first].Minutes > 0 => IsDecimalOf(cell, entries[first].Minutes)
                 /\ entries[first].Minutes = 0 => cell = << >>

RowMatches(row, log) ==
    /\ Len(row) = 11
    /\ row[1] = log.FullName /\ row[2] = log.Grade /\ row[3] = log.HomeroomTeacher
    /\ \A c \in 1..7 : CellMatches(row[3 + c], log.ReadingEntries, DateColumns[c])
    /\ IsDecimalOf(row[11], SumDown(log.ReadingEntries, Len(log.ReadingEntries)))

\* C6: the export holds one row per record of `completed`, of this run or
\* an earlier one; each date column holds the decimal minutes of the first
\* entry of that date when they are positive and is empty when there is no
\* such entry or its minutes are 0; the last column is the decimal sum of
\* the minutes of all entries.
C6_ExportRows ==
    csv.state = "written" =>
        \E order \in Orders(Keys(progress.Completed)) :
            /\ Len(csv.rows) = Cardinality(Keys(progress.Completed))
            /\ \A k \in 1..Len(csv.rows) :
                  RowMatches(csv.rows[k], progress.Completed.kv[order[k]])

C6_Witness ==
    /\ csv.state = "written"
    /\ run > 1
    /\ \E n, m \in ImageSet :
          /\ outcome[n] = "skipped" /\ progress.Completed.kv[n] = LogB
          /\ outcome[m] = "completed" /\ progress.Completed.kv[m] = LogA

\* C7: a temp file made by converting a HEIC image is gone by the time the
\* loop is through with that image, whatever became of it, and none is
\* left when the run ends by returning or by a fatal exit.
C7_TempRemoved ==
    pc \in {"loop", "done", "exit"} => tmpDir = {}

\* No file is in both maps.
C8_Disjoint == Keys(progress.Completed) \cap Keys(progress.Errors) = {}

\* What a step that makes a mark does to the two maps.
C8_MarkStep ==
    (pc # "save" /\ pc' = "save") =>
        /\ marked' = "success" =>
              /\ Has(progress'.Completed, cur)
              /\ ~Has(progress'.Errors, cur)
              /\ \A n \in Names \ {cur} :
                    /\ Has(progress'.Errors, n) <=> Has(progress.Errors, n)
                    /\ Has(progress'.Completed, n) <=> Has(progress.Completed, n)
        /\ marked' = "failure" =>
              /\ Has(progress'.Errors, cur)
              /\ progress'.Completed = progress.Completed
        /\ marked' \in {"success", "failure"}

\* C8: a mark of success puts the file into `completed` and takes it out of
\* `errors`; a mark of failure puts it into `errors` and leaves `completed`
\* as it was; and no file is in both maps.
C8_Marks == []C8_Disjoint /\ [][C8_MarkStep]_vars

C8_Witness ==
    /\ pc = "save" /\ marked = "success"
    /\ Has(loaded.Errors, cur)
    /\ ~Has(progress.Errors, cur)

\* C9: every mark is followed at once by a save, and a save that fails is
\* followed by a warning, leaves the mark in memory and lets the loop go on
\* to the next file.
C9_SaveFailureWarned ==
    /\ pc = "save" <=> marked # "none"
    /\ lastSave = "failed" => lastWarned
    /\ (lastSave = "failed" /\ pc = "loop" /\ i > 1) =>
          Has(progress.Completed, images[i - 1]) \/ Has(progress.Errors, images[i - 1])

\* C10: whatever .progress.json holds, loadProgress returns a state with
\* two maps that the marks of the run can write to (a fresh empty one for a
\* missing or unparsable file), so no mark fails.
C10_LoadUsable ==
    /\ pc # "panic"
    /\ (pc # "start" /\ env.dirOk /\ images # << >>) =>
          /\ ~loaded.Completed.nil
          /\ ~loaded.Errors.nil
          /\ disk.kind \in {"absent", "corrupt"} => loaded = FreshProgress

====
